---- MODULE Spec2Model ----
(***************************************************************************)
(* Snapshot creation helpers of ethcore (src/ethcore/src/snapshot/mod.rs): *)
(* the block chunker (chunk_blocks / BlockChunker) and the state chunker   *)
(* (chunk_state / StateChunker), both writing through the shared           *)
(* write_chunk.                                                            *)
(*                                                                         *)
(* A behaviour of Spec is one call of chunk_blocks or one call of          *)
(* chunk_state, on any chain or account trie within the bounds.  One step  *)
(* is one iteration of the function's loop, or the code that follows the   *)
(* loop.  The fields `rlps` and `hashes` exist in both chunker structs;    *)
(* a run owns exactly one chunker, so the model keeps one variable each.   *)
(***************************************************************************)
EXTENDS Integers, Sequences, FiniteSets, TLC

VARIABLES
    call,          \* the function the run calls: "chunk_blocks" or "chunk_state"
    pc,            \* position of the running function: "chunk_all", "chunk_state", "Ok", "Err"
    chain,         \* BlockChainClient: chain[n] is the encoded pair size of block number n (genesis is number 0)
    accounts,      \* the account trie, as the sequence of (key, pair size) its iterator yields
    next_account,  \* position of the account-trie iterator in `accounts`
    rlps,          \* BlockChunker::rlps / StateChunker::rlps
    current_hash,  \* BlockChunker::current_hash
    hashes,        \* BlockChunker::hashes / StateChunker::hashes
    loaded_size,   \* local `loaded_size` of chunk_all
    cur_size,      \* StateChunker::cur_size
    files,         \* the files created in the snapshot directory, in creation order
    fetched,       \* the hashes handed to client.block(), or to hash_db.get(), in call order
    snappy_buffer, \* BlockChunker::snappy_buffer / StateChunker::snappy_buffer, as runs of bytes
    arg,           \* the argument of a call of a function without chunker state
    returned,      \* the value handed back to the caller: <<"Ok", hashes>>, <<"Err">> or <<>> while running
    handlers,      \* the exit handlers installed so far: "ctrlc" (CtrlC::set_handler), "panic" (on_panic)
    events,        \* the Ctrl-C signals and forwarded panics that occurred, with the main thread's position then
    pending        \* the events whose handler has started and has not yet called notify_all

vars == <<call, pc, chain, accounts, next_account, rlps, current_hash, hashes,
          loaded_size, cur_size, files, fetched, snappy_buffer, arg, returned,
          handlers, events, pending>>

\* the state of wait_for_exit, and its value while wait_for_exit is not running
exit_vars == <<handlers, events, pending>>

ExitAtRest ==
    /\ handlers = {}
    /\ events = <<>>
    /\ pending = <<>>

(***************************************************************************)
(* Bounds of the model.                                                    *)
(***************************************************************************)
MaxBlocks == 4
MaxAccounts == 4
MaxStorageKeys == 2
MaxHashes == 2

(***************************************************************************)
(* Program constants.                                                      *)
(***************************************************************************)
PREFERRED_CHUNK_SIZE == 16 * 1024 * 1024

SNAPPY_BUFFER_SIZE == 20 * 1024 * 1024

\* Encoded sizes a (abridged block, receipts) pair may have.  They are chosen
\* around PREFERRED_CHUNK_SIZE: small, half, just below, and above.
BlockPairSizes ==
    {600, PREFERRED_CHUNK_SIZE \div 2, PREFERRED_CHUNK_SIZE - 600, PREFERRED_CHUNK_SIZE + 1}

\* Encoded sizes a (account key, fat rlp) pair may have; the largest is that
\* of an account with much storage, longer than the compression buffer.
AccountPairSizes ==
    {109, PREFERRED_CHUNK_SIZE \div 2, PREFERRED_CHUNK_SIZE - 110, PREFERRED_CHUNK_SIZE,
     SNAPPY_BUFFER_SIZE}

\* Outcomes of the two fallible calls of write_chunk.
IoOutcomes == {"ok", "create_err", "write_err"}

(***************************************************************************)
(* Helpers.                                                                *)
(***************************************************************************)
RECURSIVE SumLen(_)
SumLen(s) == IF s = <<>> THEN 0 ELSE Head(s).len + SumLen(Tail(s))

Items(s) == [i \in 1..Len(s) |-> s[i].item]

RECURSIVE Concat(_)
Concat(ss) == IF ss = <<>> THEN <<>> ELSE Head(ss) \o Concat(Tail(ss))

Reverse(s) == [i \in 1..Len(s) |-> s[Len(s) + 1 - i]]

(***************************************************************************)
(* The chain client.  A block is identified by its number; its hash is     *)
(* a value of another range, so that a hash is never taken for a number.   *)
(***************************************************************************)
HashOfBlock(n) == 1000 + n

NumberOfHash(h) == h - 1000

genesis_hash == HashOfBlock(0)

\* header.number() of the block client.block(BlockID::Hash(h)) returns
header_number(h) == NumberOfHash(h)

\* header.parent_hash() of that block
header_parent_hash(h) == HashOfBlock(NumberOfHash(h) - 1)

\* the pair stream of lines 103-107: the block's encoded pair
pair_of_block(h) == [item |-> NumberOfHash(h), len |-> chain[NumberOfHash(h)]]

(***************************************************************************)
(* Encoded lengths (util::rlp, RlpStream).                                 *)
(***************************************************************************)
\* bytes of the big-endian form of n without leading zeroes
RECURSIVE BytesOf(_)
BytesOf(n) == IF n = 0 THEN 0 ELSE 1 + BytesOf(n \div 256)

\* a payload of n bytes behind its length prefix (string of 2+ bytes, or list)
Prefixed(n) == IF n < 56 THEN 1 + n ELSE 1 + BytesOf(n) + n

\* an unsigned integer as a byte string
UintLen(n) == IF n < 128 THEN 1 ELSE 1 + BytesOf(n)

\* a 32-byte hash as a byte string
HashLen == 33

RECURSIVE SumPrefixed(_)
SumPrefixed(s) == IF s = <<>> THEN 0 ELSE Prefixed(Head(s).len) + SumPrefixed(Tail(s))

\* raw_data.len() of a block chunk: list of parent hash, number and the pairs
BlockRawLen(number, pairs) == Prefixed(HashLen + UintLen(number) + SumPrefixed(pairs))

\* raw_data.len() of a state chunk: list of the pairs
StateRawLen(pairs) == Prefixed(SumPrefixed(pairs))

(***************************************************************************)
(* write_chunk (shared portion), lines 66-78.                              *)
(***************************************************************************)
\* snappy compression and sha3 are injective on the data the model writes
Snappy(raw) == [snappy |-> raw]

Sha3(bytes) == [sha3 |-> bytes]

Hex(hash) == [hex |-> hash]

\* snappy::max_compressed_len
max_compressed_len(n) == 32 + n + n \div 6

\* the size snappy::compress_into returns: the compressor is taken at its
\* worst case, the output as long as max_compressed_len allows
compress_into_size(raw) == max_compressed_len(raw.raw_len)

\* A buffer is a sequence of runs of bytes: bytes lo..hi of a compressed
\* datum, or that many zero bytes.
ZeroRun(n) == [of |-> [zero |-> TRUE], lo |-> 1, hi |-> n]

RECURSIVE BufLen(_)
BufLen(buf) == IF buf = <<>> THEN 0 ELSE (Head(buf).hi - Head(buf).lo + 1) + BufLen(Tail(buf))

\* buf[k..]
RECURSIVE DropBytes(_, _)
DropBytes(buf, k) ==
    IF k = 0 \/ buf = <<>> THEN buf
    ELSE LET n == Head(buf).hi - Head(buf).lo + 1
         IN  IF n <= k THEN DropBytes(Tail(buf), k - n)
             ELSE <<[Head(buf) EXCEPT !.lo = @ + k]>> \o Tail(buf)

\* buf[..k]
RECURSIVE TakeBytes(_, _)
TakeBytes(buf, k) ==
    IF k = 0 \/ buf = <<>> THEN <<>>
    ELSE LET n == Head(buf).hi - Head(buf).lo + 1
         IN  IF n <= k THEN <<Head(buf)>> \o TakeBytes(Tail(buf), k - n)
             ELSE <<[Head(buf) EXCEPT !.hi = Head(buf).lo + k - 1]>>

\* a fresh buffer: vec![0; SNAPPY_BUFFER_SIZE], lines 162 and 232
FreshBuffer == <<ZeroRun(SNAPPY_BUFFER_SIZE)>>

\* faulty variant: the buffer is never resized
ResizedNever(output, max_size) == output

\* lines 50-55: output.resize(max_size, 0) if max_size > buf_len
Resized(output, max_size) ==
    LET buf_len == BufLen(output)
    IN  IF max_size > buf_len THEN output \o <<ZeroRun(max_size - buf_len)>> ELSE output

\* compression_helper, lines 48-62: the buffer after the call, the size
\* returned, and whether compress_into reports BufferTooSmall, as it does
\* when the buffer is shorter than max_compressed_len
compression_helper(input, output) ==
    LET max_size == max_compressed_len(input.raw_len)
        resized == Resized(output, max_size)
        size == compress_into_size(input)
        too_small == BufLen(resized) < max_size
    IN  [buffer |-> IF too_small THEN resized
                    ELSE <<[of |-> Snappy(input), lo |-> 1, hi |-> size]>>
                             \o DropBytes(resized, size),
         size |-> size,
         too_small |-> too_small]

\* how write_chunk(raw_data, ..) may end: with the panic of line 59, or with
\* one of the outcomes of creating and writing the file
WriteOutcomes(raw_data) ==
    IF compression_helper(raw_data, snappy_buffer).too_small
    THEN {"too_small"}
    ELSE IoOutcomes

\* what the caller sees of a write that did not end well
FailureOf(io) == IF io = "too_small" THEN "panic" ELSE "Err"

\* self.snappy_buffer after write_chunk(raw_data, ..)
BufferAfterWrite(raw_data) == compression_helper(raw_data, snappy_buffer).buffer

\* line 68: compressed = &compression_buffer[..compressed_size]
Compressed(raw_data) ==
    LET c == compression_helper(raw_data, snappy_buffer)
    IN  TakeBytes(c.buffer, c.size)

\* faulty variant: the whole buffer is hashed
HashOfWholeBuffer(raw_data) == Sha3(BufferAfterWrite(raw_data))

\* line 69, the hash write_chunk returns in Ok((hash, compressed_size))
HashAfterWrite(raw_data) == Sha3(Compressed(raw_data))

\* the files left in the directory by write_chunk(raw_data, ..) ending with `io`
FilesAfterWrite(raw_data, io) ==
    LET compressed == Compressed(raw_data)
        hash == HashAfterWrite(raw_data)
    IN  CASE io = "ok" -> Append(files, [name |-> Hex(hash), data |-> compressed, whole |-> TRUE])
          [] io = "write_err" -> Append(files, [name |-> Hex(hash), data |-> compressed, whole |-> FALSE])
          [] io = "create_err" -> files
          [] io = "too_small" -> files

\* faulty variant: the result of write_all is dropped
WriteFailedAtCreate(io) == io = "create_err"

\* lines 74-75: try! hands any failure of File::create or write_all to the caller
WriteFailed(io) == io # "ok"

(***************************************************************************)
(* BlockChunker, lines 81-149, and chunk_blocks, lines 156-168.            *)
(***************************************************************************)
\* raw_data of BlockChunker::write_chunk, lines 136-142
BlockRawData(parent_hash, number) ==
    [parent_hash |-> parent_hash,
     number |-> number,
     pairs |-> rlps,
     raw_len |-> BlockRawLen(number, rlps)]

\* faulty variant: push_back in place of push_front
PushPairBack(pair, deque) == Append(deque, pair)

\* line 120: self.rlps.push_front(pair)
PushPair(pair, deque) == <<pair>> \o deque

\* faulty variant: the hash is inserted at the head of the list
PushHashFront(hash, list) == <<hash>> \o list

\* lines 146 and 212: self.hashes.push(hash)
PushHash(hash, list) == Append(list, hash)

\* faulty variant: the size before the pair is compared
CutOffOldSize(new_loaded_size) == loaded_size > PREFERRED_CHUNK_SIZE

\* line 112: cut off the chunk if too large
CutOff(new_loaded_size) == new_loaded_size > PREFERRED_CHUNK_SIZE

\* faulty variant: the remainder is never written
HasRemainderNever == FALSE

\* faulty variant: the remainder is written unconditionally
HasRemainderAlways == TRUE

\* line 124: the remainder is written when anything was loaded
HasRemainder == loaded_size # 0

\* the best block is the head of the chain
best_block_hash == HashOfBlock(Len(chain))

InitBlocks ==
    /\ chain \in UNION {[1..n -> BlockPairSizes] : n \in 0..MaxBlocks}
    /\ accounts = <<>>
    /\ next_account = 1
    /\ rlps = <<>>
    /\ current_hash = best_block_hash
    /\ hashes = <<>>
    /\ loaded_size = 0
    /\ cur_size = 0
    /\ files = <<>>
    /\ fetched = <<>>
    /\ snappy_buffer = FreshBuffer
    /\ arg = <<>>
    /\ returned = <<>>
    /\ ExitAtRest
    /\ pc = "chunk_all"
    /\ call = "chunk_blocks"

\* one iteration of the while loop of chunk_all, lines 96-122
ChunkAllLoop ==
    /\ pc = "chunk_all"
    /\ current_hash # genesis_hash
    /\ LET pair == pair_of_block(current_hash)
           new_loaded_size == loaded_size + pair.len
           raw_data == BlockRawData(header_parent_hash(current_hash), header_number(current_hash))
       IN  /\ fetched' = Append(fetched, current_hash)
           /\ IF CutOff(new_loaded_size)
              THEN \E io \in WriteOutcomes(raw_data) :
                     /\ files' = FilesAfterWrite(raw_data, io)
                     /\ snappy_buffer' = BufferAfterWrite(raw_data)
                     /\ IF ~WriteFailed(io)
                        THEN /\ hashes' = PushHash(HashAfterWrite(raw_data), hashes)
                             /\ loaded_size' = pair.len
                             /\ rlps' = PushPair(pair, <<>>)
                             /\ current_hash' = header_parent_hash(current_hash)
                             /\ UNCHANGED <<pc, returned>>
                        ELSE /\ rlps' = <<>>
                             /\ pc' = FailureOf(io)
                             /\ returned' = <<FailureOf(io)>>
                             /\ UNCHANGED <<hashes, loaded_size, current_hash>>
              ELSE /\ loaded_size' = new_loaded_size
                   /\ rlps' = PushPair(pair, rlps)
                   /\ current_hash' = header_parent_hash(current_hash)
                   /\ UNCHANGED <<hashes, files, snappy_buffer, pc, returned>>
    /\ UNCHANGED <<exit_vars, arg, call, chain, accounts, next_account, cur_size>>

\* the code after the loop, lines 124-130, and the return of chunk_blocks, lines 165-167
ChunkAllRemainder ==
    /\ pc = "chunk_all"
    /\ current_hash = genesis_hash
    /\ LET raw_data == BlockRawData(genesis_hash, 1)
       IN  IF HasRemainder
           THEN \E io \in WriteOutcomes(raw_data) :
                  /\ files' = FilesAfterWrite(raw_data, io)
                  /\ snappy_buffer' = BufferAfterWrite(raw_data)
                  /\ rlps' = <<>>
                  /\ IF ~WriteFailed(io)
                     THEN /\ hashes' = PushHash(HashAfterWrite(raw_data), hashes)
                          /\ pc' = "Ok"
                          /\ returned' = <<"Ok", hashes'>>
                     ELSE /\ pc' = FailureOf(io)
                          /\ returned' = <<FailureOf(io)>>
                          /\ UNCHANGED hashes
           ELSE /\ pc' = "Ok"
                /\ returned' = <<"Ok", hashes>>
                /\ UNCHANGED <<hashes, files, snappy_buffer, rlps>>
    /\ UNCHANGED <<exit_vars, arg, call, chain, accounts, next_account, current_hash, loaded_size, cur_size, fetched>>

(***************************************************************************)
(* StateChunker, lines 171-217, and chunk_state, lines 224-253.            *)
(***************************************************************************)
\* the account keys the trie can hold
KeySpace == 1..(MaxAccounts + 1)

\* the keys of `keys` in ascending order, as TrieDB::iter yields them
RECURSIVE Ascending(_)
Ascending(keys) ==
    IF keys = {} THEN <<>>
    ELSE LET least == CHOOSE k \in keys : \A o \in keys : k <= o
         IN  <<least>> \o Ascending(keys \ {least})

\* raw_data of StateChunker::write_chunk, lines 204-208
StateRawData == [pairs |-> rlps, raw_len |-> StateRawLen(rlps)]

\* faulty variant: the pair is inserted at the head of the buffer
PushAccountFront(pair, list) == <<pair>> \o list

\* line 196: self.rlps.push(pair)
PushAccount(pair, list) == Append(list, pair)

\* faulty variant: the buffer is tested without the incoming pair
BufferFullBefore(pair_len) == cur_size >= PREFERRED_CHUNK_SIZE

\* line 191: write out the buffer before a pair that fills the chunk
BufferFull(pair_len) == cur_size + pair_len >= PREFERRED_CHUNK_SIZE

\* faulty variant: the residual buffer is never written
HasResidualNever == FALSE

\* line 248: the residual buffer is written when it holds anything
HasResidual == cur_size # 0

InitState ==
    /\ \E keys \in SUBSET KeySpace :
         /\ Cardinality(keys) <= MaxAccounts
         /\ \E sizes \in [1..Cardinality(keys) -> AccountPairSizes] :
              accounts = [i \in 1..Cardinality(keys) |->
                            [item |-> Ascending(keys)[i], len |-> sizes[i]]]
    /\ chain = <<>>
    /\ next_account = 1
    /\ rlps = <<>>
    /\ current_hash = genesis_hash
    /\ hashes = <<>>
    /\ loaded_size = 0
    /\ cur_size = 0
    /\ files = <<>>
    /\ fetched = <<>>
    /\ snappy_buffer = FreshBuffer
    /\ arg = <<>>
    /\ returned = <<>>
    /\ ExitAtRest
    /\ pc = "chunk_state"
    /\ call = "chunk_state"

\* one iteration of the for loop of chunk_state, lines 238-246, with push, lines 184-199
ChunkStateLoop ==
    /\ pc = "chunk_state"
    /\ next_account <= Len(accounts)
    /\ LET pair == accounts[next_account]
       IN  IF BufferFull(pair.len)
           THEN \E io \in WriteOutcomes(StateRawData) :
                  /\ files' = FilesAfterWrite(StateRawData, io)
                  /\ snappy_buffer' = BufferAfterWrite(StateRawData)
                  /\ IF ~WriteFailed(io)
                     THEN /\ hashes' = PushHash(HashAfterWrite(StateRawData), hashes)
                          /\ cur_size' = pair.len
                          /\ rlps' = PushAccount(pair, <<>>)
                          /\ next_account' = next_account + 1
                          /\ UNCHANGED <<pc, returned>>
                     ELSE /\ rlps' = <<>>
                          /\ pc' = FailureOf(io)
                          /\ returned' = <<FailureOf(io)>>
                          /\ UNCHANGED <<hashes, cur_size, next_account>>
           ELSE /\ cur_size' = cur_size + pair.len
                /\ rlps' = PushAccount(pair, rlps)
                /\ next_account' = next_account + 1
                /\ UNCHANGED <<hashes, files, snappy_buffer, pc, returned>>
    /\ UNCHANGED <<exit_vars, arg, call, chain, accounts, current_hash, loaded_size, fetched>>

\* the code after the loop, lines 248-252
ChunkStateResidual ==
    /\ pc = "chunk_state"
    /\ next_account > Len(accounts)
    /\ IF HasResidual
       THEN \E io \in WriteOutcomes(StateRawData) :
              /\ files' = FilesAfterWrite(StateRawData, io)
              /\ snappy_buffer' = BufferAfterWrite(StateRawData)
              /\ rlps' = <<>>
              /\ IF ~WriteFailed(io)
                 THEN /\ hashes' = PushHash(HashAfterWrite(StateRawData), hashes)
                      /\ cur_size' = 0
                      /\ pc' = "Ok"
                      /\ returned' = <<"Ok", hashes'>>
                 ELSE /\ pc' = FailureOf(io)
                      /\ returned' = <<FailureOf(io)>>
                      /\ UNCHANGED <<hashes, cur_size>>
       ELSE /\ pc' = "Ok"
            /\ returned' = <<"Ok", hashes>>
            /\ UNCHANGED <<hashes, files, snappy_buffer, rlps, cur_size>>
    /\ UNCHANGED <<exit_vars, arg, call, chain, accounts, next_account, current_hash, loaded_size, fetched>>

(***************************************************************************)
(* A run is one call of chunk_blocks or one call of chunk_state.           *)
(***************************************************************************)
Init == InitBlocks \/ InitState

Next == ChunkAllLoop \/ ChunkAllRemainder \/ ChunkStateLoop \/ ChunkStateResidual

Spec == Init /\ [][Next]_vars

(***************************************************************************)
(* Calls of functions that keep no chunker state: the chunker's variables  *)
(* stay at rest, the call's argument is `arg`, its result `returned`.      *)
(***************************************************************************)
chunker_vars == <<chain, accounts, next_account, rlps, current_hash, hashes,
                  loaded_size, cur_size, files, fetched, snappy_buffer>>

ChunkerAtRest ==
    /\ chain = <<>>
    /\ accounts = <<>>
    /\ next_account = 1
    /\ rlps = <<>>
    /\ current_hash = genesis_hash
    /\ hashes = <<>>
    /\ loaded_size = 0
    /\ cur_size = 0
    /\ files = <<>>
    /\ fetched = <<>>
    /\ snappy_buffer = <<>>

(***************************************************************************)
(* AccountReader, lines 257-312.                                           *)
(***************************************************************************)
\* NULL_RLP, the encoding of the empty byte string
NULL_RLP == <<128>>

\* SHA3_NULL_RLP, the hash of NULL_RLP and the root of the empty trie
SHA3_NULL_RLP == Sha3(NULL_RLP)

\* the hash of the empty byte string: the code hash of an account without code
SHA3_EMPTY == Sha3(<<>>)

\* the byte codes a database may hold
Codes == {<<>>, NULL_RLP, <<96, 0>>}

\* the storage tries: every map from some of the storage keys to a value
StorageKeys == 1..MaxStorageKeys

StorageValues == {7, 8}

StorageTries == UNION {[keys -> StorageValues] : keys \in SUBSET StorageKeys}

\* the root hash of a trie
TrieRoot(trie) == IF DOMAIN trie = {} THEN SHA3_NULL_RLP ELSE [root |-> trie]

\* TrieDB::iter: the pairs of the trie in ascending key order
TrieIter(trie) == [i \in 1..Cardinality(DOMAIN trie) |->
                     <<Ascending(DOMAIN trie)[i], trie[Ascending(DOMAIN trie)[i]]>>]

\* HashDB::get: the value stored under `hash`, <<>> for None and <<value>> for Some
HashDBGet(db, hash) ==
    IF \E c \in db.codes : Sha3(c) = hash
    THEN <<CHOOSE c \in db.codes : Sha3(c) = hash>>
    ELSE <<>>

\* faulty variant: the fields are read from the wrong positions
from_thin_rlp_swapped(rlp) ==
    [nonce |-> rlp[2], balance |-> rlp[1], storage_root |-> rlp[3], code_hash |-> rlp[4]]

\* from_thin_rlp, lines 266-275
from_thin_rlp(rlp) ==
    [nonce |-> rlp[1], balance |-> rlp[2], storage_root |-> rlp[3], code_hash |-> rlp[4]]

\* faulty variant: the first pair of the trie is skipped
StoragePairsSkipFirst(trie) == IF DOMAIN trie = {} THEN <<>> ELSE Tail(TrieIter(trie))

\* lines 282-292: the pairs of the storage trie, in iterator order
StoragePairs(trie) == TrieIter(trie)

\* faulty variant: the hash of the empty byte string is tested
InlinesCodeOfEmptyHash(code_hash) == code_hash = SHA3_EMPTY

\* line 302: the condition under which code is read and inlined
InlinesCode(code_hash) == code_hash = SHA3_NULL_RLP

\* to_fat_rlp, lines 279-311: the result and the hashes asked of hash_db.get
to_fat_rlp(self, db) ==
    IF ~\E t \in db.tries : TrieRoot(t) = self.storage_root
    THEN [ret |-> <<"Err">>, gets |-> <<>>]
    ELSE LET trie == CHOOSE t \in db.tries : TrieRoot(t) = self.storage_root
             fat(code_block) == [nonce |-> self.nonce,
                                 balance |-> self.balance,
                                 storage_root |-> self.storage_root,
                                 code_block |-> code_block,
                                 storage_pairs |-> StoragePairs(trie)]
         IN  IF InlinesCode(self.code_hash)
             THEN IF HashDBGet(db, self.code_hash) = <<>>
                  THEN [ret |-> <<"panic">>, gets |-> <<self.code_hash>>]
                  ELSE [ret |-> <<"Ok", fat(<<TRUE, HashDBGet(db, self.code_hash)[1]>>)>>,
                        gets |-> <<self.code_hash>>]
             ELSE [ret |-> <<"Ok", fat(<<FALSE, <<>>>>)>>, gets |-> <<>>]

\* a thin account and a database: the account's storage trie, which the
\* database may hold or lack, and any of the byte codes
InitFat ==
    /\ \E nonce \in {0, 1}, balance \in {0, 1000}, trie \in StorageTries,
          code \in Codes, held \in BOOLEAN, codes \in SUBSET Codes :
         arg = [thin |-> <<nonce, balance, TrieRoot(trie), Sha3(code)>>,
                trie |-> trie,
                db |-> [tries |-> IF held THEN {trie} ELSE {}, codes |-> codes]]
    /\ ChunkerAtRest
    /\ ExitAtRest
    /\ returned = <<>>
    /\ pc = "to_fat_rlp"
    /\ call = "to_fat_rlp"

\* lines 239-244: the account is read from its thin encoding and made fat
ToFatRlp ==
    /\ pc = "to_fat_rlp"
    /\ LET r == to_fat_rlp(from_thin_rlp(arg.thin), arg.db)
       IN  /\ returned' = r.ret
           /\ fetched' = r.gets
           /\ pc' = r.ret[1]
    /\ UNCHANGED <<exit_vars, call, arg, chain, accounts, next_account, rlps, current_hash, hashes,
                   loaded_size, cur_size, files, snappy_buffer>>

SpecFat == InitFat /\ [][ToFatRlp]_vars

(***************************************************************************)
(* The recursive length-prefixed encoding (util::rlp), on bytes.           *)
(***************************************************************************)
\* the big-endian bytes of n without leading zeroes
RECURSIVE BigEndian(_)
BigEndian(n) == IF n = 0 THEN <<>> ELSE BigEndian(n \div 256) \o <<n % 256>>

\* the number a big-endian byte string stands for
RECURSIVE BigEndianValue(_)
BigEndianValue(bytes) ==
    IF bytes = <<>> THEN 0
    ELSE 256 * BigEndianValue(SubSeq(bytes, 1, Len(bytes) - 1)) + bytes[Len(bytes)]

\* RlpStream::append of a byte string
RlpData(bytes) ==
    IF Len(bytes) = 1 /\ bytes[1] < 128 THEN bytes
    ELSE IF Len(bytes) < 56 THEN <<128 + Len(bytes)>> \o bytes
    ELSE <<183 + Len(BigEndian(Len(bytes)))>> \o BigEndian(Len(bytes)) \o bytes

\* a list whose encoded items are `payload`
RlpList(payload) ==
    IF Len(payload) < 56 THEN <<192 + Len(payload)>> \o payload
    ELSE <<247 + Len(BigEndian(Len(payload)))>> \o BigEndian(Len(payload)) \o payload

\* the first item of `bytes`: its kind, the length of its prefix and of its
\* payload; kind "bad" when the prefix is malformed or runs past the end
RlpHead(bytes) ==
    LET b == bytes[1]
        long(kind, n) ==
            IF 1 + n > Len(bytes) THEN [kind |-> "bad", prefix |-> 0, len |-> 0]
            ELSE [kind |-> kind, prefix |-> 1 + n, len |-> BigEndianValue(SubSeq(bytes, 2, 1 + n))]
        head == IF bytes = <<>> THEN [kind |-> "bad", prefix |-> 0, len |-> 0]
                ELSE IF b < 128 THEN [kind |-> "data", prefix |-> 0, len |-> 1]
                ELSE IF b < 184 THEN [kind |-> "data", prefix |-> 1, len |-> b - 128]
                ELSE IF b < 192 THEN long("data", b - 183)
                ELSE IF b < 248 THEN [kind |-> "list", prefix |-> 1, len |-> b - 192]
                ELSE long("list", b - 247)
    IN  IF head.kind # "bad" /\ head.prefix + head.len > Len(bytes)
        THEN [kind |-> "bad", prefix |-> 0, len |-> 0]
        ELSE head

RlpPayload(bytes) == SubSeq(bytes, RlpHead(bytes).prefix + 1, RlpHead(bytes).prefix + RlpHead(bytes).len)

\* the encoded items that follow each other in `bytes`; <<"bad">> when one is malformed
RECURSIVE RlpSplit(_)
RlpSplit(bytes) ==
    IF bytes = <<>> THEN <<>>
    ELSE LET h == RlpHead(bytes)
             n == h.prefix + h.len
         IN  IF h.kind = "bad" THEN <<"bad">>
             ELSE LET rest == RlpSplit(SubSeq(bytes, n + 1, Len(bytes)))
                  IN  IF rest = <<"bad">> THEN rest ELSE <<SubSeq(bytes, 1, n)>> \o rest

\* UntrustedRlp::at(index), from 0: <<item>>, or <<>> for a DecoderError
RlpAt(bytes, index) ==
    IF RlpHead(bytes).kind # "list" THEN <<>>
    ELSE LET items == RlpSplit(RlpPayload(bytes))
         IN  IF items = <<"bad">> \/ index + 1 > Len(items) THEN <<>> ELSE <<items[index + 1]>>

\* as_val::<H256>: <<hash>>, or <<>> for a DecoderError
RlpAsHash(bytes) ==
    IF RlpHead(bytes).kind = "data" /\ RlpHead(bytes).len = 32 THEN <<RlpPayload(bytes)>> ELSE <<>>

\* as_val::<Vec<H256>>: <<list of hashes>>, or <<>> for a DecoderError
RlpAsHashes(bytes) ==
    IF RlpHead(bytes).kind # "list" THEN <<>>
    ELSE LET items == RlpSplit(RlpPayload(bytes))
         IN  IF items = <<"bad">> \/ \E i \in 1..Len(items) : RlpAsHash(items[i]) = <<>>
             THEN <<>>
             ELSE <<[i \in 1..Len(items) |-> RlpAsHash(items[i])[1]]>>

\* append(&Vec<H256>): the list of the hashes
RlpHashes(hs) == RlpList(Concat([i \in 1..Len(hs) |-> RlpData(hs[i])]))

(***************************************************************************)
(* ManifestData, lines 315-349.                                            *)
(***************************************************************************)
\* the 32-byte hash that ends with byte n
H256(n) == [i \in 1..32 |-> IF i = 32 THEN n ELSE 0]

HashValues == {H256(0), H256(1), H256(200)}

HashLists == UNION {[1..n -> HashValues] : n \in 0..MaxHashes}

\* to_rlp, lines 326-333
to_rlp(self) ==
    RlpList(RlpHashes(self.state_hashes) \o RlpHashes(self.block_hashes) \o RlpData(self.state_root))

\* faulty variant: the two lists are read from each other's position
from_rlp_swapped(raw) ==
    LET state_hashes == IF RlpAt(raw, 1) = <<>> THEN <<>> ELSE RlpAsHashes(RlpAt(raw, 1)[1])
        block_hashes == IF RlpAt(raw, 0) = <<>> THEN <<>> ELSE RlpAsHashes(RlpAt(raw, 0)[1])
        state_root == IF RlpAt(raw, 2) = <<>> THEN <<>> ELSE RlpAsHash(RlpAt(raw, 2)[1])
    IN  IF state_hashes = <<>> \/ block_hashes = <<>> \/ state_root = <<>>
        THEN <<"Err">>
        ELSE <<"Ok", [state_hashes |-> state_hashes[1],
                      block_hashes |-> block_hashes[1],
                      state_root |-> state_root[1]]>>

\* from_rlp, lines 336-348
from_rlp(raw) ==
    LET state_hashes == IF RlpAt(raw, 0) = <<>> THEN <<>> ELSE RlpAsHashes(RlpAt(raw, 0)[1])
        block_hashes == IF RlpAt(raw, 1) = <<>> THEN <<>> ELSE RlpAsHashes(RlpAt(raw, 1)[1])
        state_root == IF RlpAt(raw, 2) = <<>> THEN <<>> ELSE RlpAsHash(RlpAt(raw, 2)[1])
    IN  IF state_hashes = <<>> \/ block_hashes = <<>> \/ state_root = <<>>
        THEN <<"Err">>
        ELSE <<"Ok", [state_hashes |-> state_hashes[1],
                      block_hashes |-> block_hashes[1],
                      state_root |-> state_root[1]]>>

InitManifest ==
    /\ arg \in [state_hashes : HashLists, block_hashes : HashLists, state_root : HashValues]
    /\ ChunkerAtRest
    /\ ExitAtRest
    /\ returned = <<>>
    /\ pc = "to_rlp"
    /\ call = "manifest"

ManifestToRlp ==
    /\ pc = "to_rlp"
    /\ returned' = <<"rlp", to_rlp(arg)>>
    /\ pc' = "from_rlp"
    /\ UNCHANGED <<call, arg, chunker_vars, exit_vars>>

ManifestFromRlp ==
    /\ pc = "from_rlp"
    /\ returned' = from_rlp(returned[2])
    /\ pc' = returned'[1]
    /\ UNCHANGED <<call, arg, chunker_vars, exit_vars>>

SpecManifest == InitManifest /\ [][ManifestToRlp \/ ManifestFromRlp]_vars

(***************************************************************************)
(* The binary codec of the IPC layer, src/ipc/rpc/src/binary.rs.           *)
(* A type is a record whose kind names its impl of BinaryConvertable; a    *)
(* byte buffer is a sequence of numbers 0..255; the length stack is a      *)
(* sequence pushed at the back and popped at the front.  A call returns    *)
(* <<"Ok", ...>>, <<"Err">> or, where the code aborts, <<"panic">>.        *)
(***************************************************************************)
\* the longest vector that is serialised
MaxVecLen == 3

U64 == [kind |-> "u64", of |-> <<>>]

StringT == [kind |-> "String", of |-> <<>>]

VecU8 == [kind |-> "Vec<u8>", of |-> <<>>]

OptionOf(T) == [kind |-> "Option", of |-> <<T>>]

VecOf(T) == [kind |-> "Vec", of |-> <<T>>]

U32 == [kind |-> "u32", of |-> <<>>]

\* a map is the sequence of its (key, value) entries in the order of its keys
BTreeMapOf(K, V) == [kind |-> "BTreeMap", of |-> <<K, V>>]

None == <<"None">>

Some(val) == <<"Some", val>>

\* mem::size_of::<T>() on a 64-bit target; a String and a Vec<u8> are three
\* words there
size_of(T) ==
    CASE T.kind = "u64" -> 8
      [] T.kind = "u32" -> 4
      [] T.kind = "String" -> 24
      [] T.kind = "Vec<u8>" -> 24

\* the raw copy of a fixed-size value into a buffer, low byte first
RECURSIVE LittleEndian(_, _)
LittleEndian(n, width) ==
    IF width = 0 THEN <<>> ELSE <<n % 256>> \o LittleEndian(n \div 256, width - 1)

\* the raw copy of a buffer into a fixed-size value
RECURSIVE LittleEndianValue(_)
LittleEndianValue(bytes) ==
    IF bytes = <<>> THEN 0 ELSE bytes[1] + 256 * LittleEndianValue(Tail(bytes))

len_params(T) == IF T.kind \in {"u64", "u32"} THEN 0 ELSE 1

RECURSIVE size(_, _)
RECURSIVE MapSize(_, _, _)
\* the share of the keys (part 1) or of the values (part 2) in the size of a map
MapSize(T, self, part) ==
    IF len_params(T) = 0 THEN size_of(T) * Len(self)
    ELSE IF self = <<>> THEN 0
    ELSE size(T, Head(self)[part]) + MapSize(T, Tail(self), part)

size(T, self) ==
    CASE len_params(T) = 0 -> size_of(T)
      [] T.kind = "BTreeMap" -> 0 + MapSize(T.of[1], self, 1) + MapSize(T.of[2], self, 2)
      [] T.kind = "Option" -> IF self[1] = "None" THEN 0 ELSE size(T.of[1], self[2])
      [] T.kind = "Vec" ->
            IF len_params(T.of[1]) = 0
            THEN size_of(T.of[1]) * Len(self)
            ELSE IF self = <<>> THEN 0
                 ELSE size(T.of[1], Head(self)) + size(T, Tail(self))
      [] T.kind = "String" -> Len(self)
      [] T.kind = "Vec<u8>" -> Len(self)

\* a byte of a buffer that nothing has written since set_len
Uninit == -1

\* the buffer with bytes copied to it from position offset (counted from 0) on
Overwrite(buffer, offset, bytes) ==
    [i \in 1..Len(buffer) |->
        IF i > offset /\ i <= offset + Len(bytes) THEN bytes[i - offset] ELSE buffer[i]]

RECURSIVE to_bytes(_, _, _)
RECURSIVE VecToBytes(_, _, _, _)
RECURSIVE WriteItem(_, _, _, _, _, _)
RECURSIVE MapToBytes(_, _, _, _, _, _)
\* item.to_bytes(&mut buffer[offset..item_end], length_stack) for a key or a
\* value that is of fixed size, a string or a byte vector: the slice must lie
\* within the buffer; a fixed-size item is copied raw, whatever the length of
\* the slice, and a copy that runs past the end of the buffer is an overrun;
\* clone_from_slice wants a slice exactly as long as the item
WriteItem(T, item, buffer, offset, item_end, length_stack) ==
    IF item_end > Len(buffer) THEN <<"panic">>
    ELSE LET written == to_bytes(T, item, length_stack)
         IN  IF written[1] # "Ok" THEN written
             ELSE IF len_params(T) = 0
                  THEN IF offset + size_of(T) > Len(buffer) THEN <<"overrun">>
                       ELSE <<"Ok", Overwrite(buffer, offset, written[2]), written[3]>>
             ELSE IF Len(written[2]) # item_end - offset THEN <<"panic">>
             ELSE <<"Ok", Overwrite(buffer, offset, written[2]), written[3]>>

\* the loop of BTreeMap<K, V>::to_bytes over the entries not yet written
MapToBytes(K, V, entries, buffer, offset, length_stack) ==
    IF entries = <<>> THEN <<"Ok", buffer, length_stack>>
    ELSE LET key == Head(entries)[1]
             val == Head(entries)[2]
             key_size == IF len_params(K) = 0 THEN size_of(K) ELSE size(K, key)
             val_size == IF len_params(K) = 0 THEN size_of(V) ELSE size(V, val)
             pushed == IF len_params(K) = 0
                       THEN length_stack
                       ELSE length_stack \o <<key_size, val_size>>
             key_written == IF key_size > 0
                            THEN WriteItem(K, key, buffer, offset, offset + key_size, pushed)
                            ELSE <<"Ok", buffer, pushed>>
             key_end == IF key_size > 0 THEN offset + key_size ELSE offset
         IN  IF key_written[1] # "Ok" THEN key_written
             ELSE LET val_written == IF val_size > 0
                                     THEN WriteItem(V, val, key_written[2], key_end,
                                                    key_end + key_size, key_written[3])
                                     ELSE key_written
                      val_end == IF val_size > 0 THEN key_end + key_size ELSE key_end
                  IN  IF val_written[1] # "Ok" THEN val_written
                      ELSE MapToBytes(K, V, Tail(entries), val_written[2], val_end,
                                      val_written[3])

\* the loop of Vec<T>::to_bytes over the items not yet written; buffer holds
\* the bytes written so far, its length is the offset
VecToBytes(T, items, buffer, length_stack) ==
    IF items = <<>> THEN <<"Ok", buffer, length_stack>>
    ELSE LET item == Head(items)
             next_size == IF len_params(T) = 0 THEN size_of(T) ELSE size(T, item)
             pushed == IF len_params(T) = 0
                       THEN length_stack
                       ELSE Append(length_stack, next_size)
         IN  IF next_size > 0
             THEN LET written == to_bytes(T, item, pushed)
                  IN  IF written[1] # "Ok" THEN written
                      ELSE VecToBytes(T, Tail(items), buffer \o written[2], written[3])
             ELSE VecToBytes(T, Tail(items), buffer, pushed)

\* to_bytes gives the bytes it put into its buffer and the length stack
to_bytes(T, self, length_stack) ==
    CASE len_params(T) = 0 -> <<"Ok", LittleEndian(self, size_of(T)), length_stack>>
      [] T.kind = "BTreeMap" ->
            MapToBytes(T.of[1], T.of[2], self, [i \in 1..size(T, self) |-> Uninit], 0,
                       length_stack)
      [] T.kind = "Option" ->
            IF self[1] = "None" THEN <<"Err">>
            ELSE to_bytes(T.of[1], self[2], length_stack)
      [] T.kind = "Vec" -> VecToBytes(T.of[1], self, <<>>, length_stack)
      [] T.kind = "String" -> <<"Ok", self, length_stack>>
      [] T.kind = "Vec<u8>" -> <<"Ok", self, length_stack>>

from_empty_bytes(T) ==
    CASE T.kind = "Option" -> <<"Ok", None>>
      [] T.kind = "Vec" -> <<"Ok", <<>>>>
      [] T.kind = "String" -> <<"Ok", <<>>>>
      [] T.kind = "Vec<u8>" -> <<"Ok", <<>>>>
      [] T.kind = "BTreeMap" -> <<"Ok", <<>>>>
      [] OTHER -> <<"Err">>

\* from_utf8 accepts a buffer of ASCII bytes; the strings that are
\* serialised hold no other byte
from_utf8_is_ok(buffer) == \A i \in 1..Len(buffer) : buffer[i] < 128

\* the order of the keys of a map: of numbers, and of strings byte by byte
RECURSIVE LexLess(_, _)
LexLess(a, b) ==
    IF b = <<>> THEN FALSE
    ELSE IF a = <<>> THEN TRUE
    ELSE IF a[1] # b[1] THEN a[1] < b[1]
    ELSE LexLess(Tail(a), Tail(b))

Less(K, a, b) == IF len_params(K) = 0 THEN a < b ELSE LexLess(a, b)

\* result.insert(key, val): the entry takes its place in the order of the
\* keys and replaces an entry of the same key
insert(K, result, key, val) ==
    SelectSeq(result, LAMBDA e : Less(K, e[1], key))
        \o <<<<key, val>>>>
        \o SelectSeq(result, LAMBDA e : Less(K, key, e[1]))

RECURSIVE from_bytes(_, _, _)
RECURSIVE VecFromBytes(_, _, _, _, _)
RECURSIVE ReadItem(_, _, _, _, _)
RECURSIVE MapFromBytes(_, _, _, _, _, _)
\* a key or a value of a map read from item_size bytes at position index
ReadItem(T, item_size, buffer, index, length_stack) ==
    IF item_size = 0
    THEN LET empty == from_empty_bytes(T)
         IN  IF empty[1] = "Ok" THEN <<"Ok", empty[2], length_stack>> ELSE empty
    ELSE IF index + item_size > Len(buffer) THEN <<"panic">>
    ELSE from_bytes(T, SubSeq(buffer, index + 1, index + item_size), length_stack)

\* the loop of BTreeMap<K, V>::from_bytes from position index of a non-empty
\* buffer
MapFromBytes(K, V, buffer, index, length_stack, result) ==
    IF len_params(K) # 0 /\ length_stack = <<>> THEN <<"Err">>
    ELSE LET key_size == IF len_params(K) = 0 THEN size_of(K) ELSE Head(length_stack)
             key_popped == IF len_params(K) = 0 THEN length_stack ELSE Tail(length_stack)
             key == ReadItem(K, key_size, buffer, index, key_popped)
         IN  IF key[1] # "Ok" THEN key
             ELSE IF len_params(V) # 0 /\ key[3] = <<>> THEN <<"Err">>
             ELSE LET val_size == IF len_params(V) = 0 THEN size_of(V) ELSE Head(key[3])
                      val_popped == IF len_params(V) = 0 THEN key[3] ELSE Tail(key[3])
                      val == ReadItem(V, val_size, buffer, index + key_size, val_popped)
                      val_end == index + key_size + val_size
                  IN  IF val[1] # "Ok" THEN val
                      ELSE IF val_end = Len(buffer)
                           THEN <<"Ok", insert(K, result, key[2], val[2]), val[3]>>
                      ELSE IF val_end > Len(buffer) THEN <<"Err">>
                      ELSE MapFromBytes(K, V, buffer, val_end, val[3],
                                        insert(K, result, key[2], val[2]))

\* the loop of Vec<T>::from_bytes from position index of a non-empty buffer
VecFromBytes(T, buffer, index, length_stack, result) ==
    IF len_params(T) # 0 /\ length_stack = <<>> THEN <<"Err">>
    ELSE LET next_size == IF len_params(T) = 0 THEN size_of(T) ELSE Head(length_stack)
             popped == IF len_params(T) = 0 THEN length_stack ELSE Tail(length_stack)
             item == IF next_size = 0
                     THEN LET empty == from_empty_bytes(T)
                          IN  IF empty[1] = "Ok" THEN <<"Ok", empty[2], popped>> ELSE empty
                     ELSE IF index + next_size > Len(buffer) THEN <<"panic">>
                     ELSE from_bytes(T, SubSeq(buffer, index + 1, index + next_size), popped)
         IN  IF item[1] # "Ok" THEN item
             ELSE IF index + next_size = Len(buffer)
                  THEN <<"Ok", Append(result, item[2]), item[3]>>
             ELSE IF index + next_size > Len(buffer) THEN <<"Err">>
             ELSE VecFromBytes(T, buffer, index + next_size, item[3],
                               Append(result, item[2]))

\* from_bytes gives the value and what is left of the length stack
from_bytes(T, buffer, length_stack) ==
    CASE len_params(T) = 0 ->
            IF Len(buffer) = size_of(T)
            THEN <<"Ok", LittleEndianValue(buffer), length_stack>>
            ELSE <<"Err">>
      [] T.kind = "BTreeMap" ->
            IF Len(buffer) = 0 THEN <<"Ok", <<>>, length_stack>>
            ELSE MapFromBytes(T.of[1], T.of[2], buffer, 0, length_stack, <<>>)
      [] T.kind = "Option" ->
            IF Len(buffer) = 0
            THEN LET empty == from_empty_bytes(T)
                 IN  IF empty[1] = "Ok" THEN <<"Ok", empty[2], length_stack>> ELSE empty
            ELSE LET val == from_bytes(T.of[1], buffer, length_stack)
                 IN  IF val[1] = "Ok" THEN <<"Ok", Some(val[2]), val[3]>> ELSE val
      [] T.kind = "Vec" ->
            IF Len(buffer) = 0 THEN <<"Ok", <<>>, length_stack>>
            ELSE VecFromBytes(T.of[1], buffer, 0, length_stack, <<>>)
      [] T.kind = "String" ->
            IF from_utf8_is_ok(buffer) THEN <<"Ok", buffer, length_stack>> ELSE <<"panic">>
      [] T.kind = "Vec<u8>" -> <<"Ok", buffer, length_stack>>

\* the header buffer of serialize_into: its first eight bytes first hold the
\* stack length and are then overwritten, as every slot is, by a length
header_buffer(length_stack) ==
    Concat([idx \in 1..Len(length_stack) |-> LittleEndian(length_stack[idx], size_of(U64))])

\* serialize_into gives the bytes written to w; w is a cursor over a vector,
\* whose writes do not fail
serialize_into(T, t) ==
    IF len_params(T) = 0
    THEN LET written == to_bytes(T, t, <<>>)
         IN  IF written[1] = "Ok" THEN <<"Ok", written[2]>> ELSE written
    ELSE LET size_buffer == LittleEndian(0, size_of(U64))
             t_size == size(T, t)
         IN  IF t_size = 0 THEN <<"Ok", size_buffer \o size_buffer>>
             ELSE LET written == to_bytes(T, t, <<>>)
                  IN  IF written[1] # "Ok" THEN written
                      ELSE LET buffer == written[2]
                               length_stack == written[3]
                               stack_len == Len(length_stack)
                           IN  <<"Ok", LittleEndian(stack_len, size_of(U64))
                                           \o header_buffer(length_stack)
                                           \o LittleEndian(t_size, size_of(U64))
                                           \o buffer>>

\* deserialize_from reads r; uninit is what the payload buffer of a fixed-size
\* type holds before the read, which stays where r is too short to fill it
deserialize_from(T, r, uninit) ==
    IF len_params(T) = 0
    THEN LET fixed_size == size_of(T)
             payload_buffer == [i \in 1..fixed_size |->
                                   IF i <= Len(r) THEN r[i] ELSE uninit[i]]
             val == from_bytes(T, payload_buffer, <<>>)
         IN  IF val[1] = "Ok" THEN <<"Ok", val[2]>> ELSE val
    ELSE LET payload == r
         IN  IF Len(payload) < 8 THEN <<"panic">>
             ELSE LET stack_len == LittleEndianValue(SubSeq(payload, 1, 8))
                  IN  IF Len(payload) < 16 + stack_len * 8 THEN <<"panic">>
                      ELSE LET length_stack ==
                                   [idx \in 1..stack_len |->
                                       LittleEndianValue(SubSeq(payload, 8 + (idx - 1) * 8 + 1,
                                                                8 + idx * 8))]
                               t_size == LittleEndianValue(SubSeq(payload, 8 + stack_len * 8 + 1,
                                                                  16 + stack_len * 8))
                               val == from_bytes(T, SubSeq(payload, 16 + stack_len * 8 + 1,
                                                           Len(payload)), length_stack)
                           IN  IF t_size = 0 THEN from_empty_bytes(T)
                               ELSE IF val[1] = "Ok" THEN <<"Ok", val[2]>> ELSE val

\* the values that are serialised
U64Values == {0, 5, 300}

Strings == {<<>>, <<97>>, <<98, 99>>}

ByteVectors == {<<>>, <<0>>, <<1, 2>>}

Options(S) == {None} \cup {Some(val) : val \in S}

Vecs(S) == UNION {[1..n -> S] : n \in 0..MaxVecLen}

U32Values == {5, 70000}

\* the maps from keys of Ks, of type K, to values of Vs
Maps(K, Ks, Vs) ==
    {m \in Vecs(Ks \X Vs) : \A i \in 1..(Len(m) - 1) : Less(K, m[i][1], m[i + 1][1])}

BinaryTypes == {U64, VecOf(U64), VecOf(OptionOf(U64)), VecOf(StringT),
                OptionOf(StringT), OptionOf(VecU8),
                BTreeMapOf(U64, U64), BTreeMapOf(U64, U32),
                BTreeMapOf(U64, StringT), BTreeMapOf(StringT, StringT)}

ValuesOf(T) ==
    CASE T = U64 -> U64Values
      [] T = VecOf(U64) -> Vecs(U64Values)
      [] T = VecOf(OptionOf(U64)) -> Vecs(Options(U64Values))
      [] T = VecOf(StringT) -> Vecs(Strings)
      [] T = OptionOf(StringT) -> Options(Strings)
      [] T = OptionOf(VecU8) -> Options(ByteVectors)
      [] T = BTreeMapOf(U64, U64) -> Maps(U64, U64Values, U64Values)
      [] T = BTreeMapOf(U64, U32) -> Maps(U64, U64Values, U32Values)
      [] T = BTreeMapOf(U64, StringT) -> Maps(U64, U64Values, Strings)
      [] T = BTreeMapOf(StringT, StringT) -> Maps(StringT, Strings, Strings)

\* what a buffer may hold before it is written: any bytes; two contents are
\* taken, such that a number read from them stays below 2^31
UninitBuffers == {[i \in 1..8 |-> 0], [i \in 1..8 |-> IF i <= 3 THEN 7 ELSE 0]}

InitBinary ==
    /\ \E T \in BinaryTypes : \E t \in ValuesOf(T) : arg = [type |-> T, value |-> t]
    /\ ChunkerAtRest
    /\ ExitAtRest
    /\ returned = <<>>
    /\ pc = "serialize_into"
    /\ call = "binary"

\* the bytes written, each byte that nothing wrote holding what the
\* allocation held
Filled(written, uninit) ==
    IF written[1] # "Ok" THEN written
    ELSE [written EXCEPT ![2] =
             [i \in 1..Len(written[2]) |->
                 IF written[2][i] = Uninit
                 THEN uninit[((i - 1) % Len(uninit)) + 1]
                 ELSE written[2][i]]]

\* serialize_into(&t, &mut buff), the cursor then sought back to the start
SerializeInto ==
    /\ pc = "serialize_into"
    /\ \E uninit \in UninitBuffers :
           returned' = Filled(serialize_into(arg.type, arg.value), uninit)
    /\ pc' = IF returned'[1] = "Ok" THEN "deserialize_from" ELSE returned'[1]
    /\ UNCHANGED <<call, arg, chunker_vars, exit_vars>>

\* deserialize_from::<T, _>(&mut buff) of the bytes serialize_into wrote
DeserializeFrom ==
    /\ pc = "deserialize_from"
    /\ \E uninit \in UninitBuffers :
           returned' = deserialize_from(arg.type, returned[2], uninit)
    /\ pc' = returned'[1]
    /\ UNCHANGED <<call, arg, chunker_vars, exit_vars>>

SpecBinary == InitBinary /\ [][SerializeInto \/ DeserializeFrom]_vars

\* to_bytes and from_bytes called one after the other on the same length
\* stack, as vec_serialize_deserialize does, for a value of a
\* variable-length type
InitToBytes ==
    /\ \E T \in BinaryTypes : \E t \in ValuesOf(T) :
          /\ len_params(T) # 0
          /\ arg = [type |-> T, value |-> t]
    /\ ChunkerAtRest
    /\ ExitAtRest
    /\ returned = <<>>
    /\ pc = "to_bytes"
    /\ call = "to_bytes"

\* v.to_bytes(&mut data[..], &mut length_stack) with data of v.size() bytes
ToBytes ==
    /\ pc = "to_bytes"
    /\ \E uninit \in UninitBuffers :
           returned' = Filled(to_bytes(arg.type, arg.value, <<>>), uninit)
    /\ pc' = IF returned'[1] = "Ok" THEN "from_bytes" ELSE returned'[1]
    /\ UNCHANGED <<call, arg, chunker_vars, exit_vars>>

\* T::from_bytes(&data[..], &mut length_stack)
FromBytes ==
    /\ pc = "from_bytes"
    /\ returned' = from_bytes(arg.type, returned[2], returned[3])
    /\ pc' = returned'[1]
    /\ UNCHANGED <<call, arg, chunker_vars, exit_vars>>

SpecLengthStack == InitToBytes /\ [][ToBytes \/ FromBytes]_vars

\* deserialize_from of a stream cut short: the first bytes of what
\* serialize_into writes for a value
InitDeserialize ==
    /\ \E T \in BinaryTypes : \E t \in ValuesOf(T) : \E uninit \in UninitBuffers :
          LET written == Filled(serialize_into(T, t), uninit)
          IN  /\ written[1] = "Ok"
              /\ \E cut \in 0..Len(written[2]) :
                    /\ arg = [type |-> T, value |-> t, cut |-> cut]
                    /\ returned = <<"Ok", SubSeq(written[2], 1, cut)>>
    /\ ChunkerAtRest
    /\ ExitAtRest
    /\ pc = "deserialize_from"
    /\ call = "deserialize_from"

SpecDeserialize == InitDeserialize /\ [][DeserializeFrom]_vars

(***************************************************************************)
(* Flattening of traces, src/ethcore/src/trace/flat.rs.  A Trace is a      *)
(* record of its action, its result and the sequence of its subtraces.     *)
(***************************************************************************)
\* the largest number of nodes of a trace tree
MaxTraceNodes == 5

\* the action and the result of a node
TraceKinds == {[action |-> "Call", result |-> "Call"],
               [action |-> "Create", result |-> "FailedCreate"]}

\* the trace trees of n nodes, and the sequences of trees of n nodes in all
RECURSIVE Traces(_)
RECURSIVE TraceSeqs(_)
Traces(n) ==
    {[action |-> k.action, result |-> k.result, subs |-> subs] :
        k \in TraceKinds, subs \in TraceSeqs(n - 1)}

TraceSeqs(n) ==
    IF n = 0 THEN {<<>>}
    ELSE UNION {{<<first>> \o rest : first \in Traces(j), rest \in TraceSeqs(n - j)} :
                   j \in 1..n}

\* flatten with the node put after its subtraces
RECURSIVE flatten_subs_first(_, _)
flatten_subs_first(address, trace) ==
    LET subtraces == Len(trace.subs)
        all_subs == Concat([index \in 1..subtraces |->
                               flatten_subs_first(Append(address, index - 1),
                                                  trace.subs[index])])
        ordered == [action |-> trace.action,
                    result |-> trace.result,
                    subtraces |-> subtraces,
                    trace_address |-> address]
    IN  all_subs \o <<ordered>>

\* FlatBlockTraces::flatten; enumerate() counts the subtraces from 0
RECURSIVE flatten(_, _)
flatten(address, trace) ==
    LET subtraces == Len(trace.subs)
        all_subs == Concat([index \in 1..subtraces |->
                               flatten(Append(address, index - 1), trace.subs[index])])
        ordered == [action |-> trace.action,
                    result |-> trace.result,
                    subtraces |-> subtraces,
                    trace_address |-> address]
    IN  <<ordered>> \o all_subs

InitTrace ==
    /\ \E n \in 1..MaxTraceNodes : arg \in Traces(n)
    /\ ChunkerAtRest
    /\ ExitAtRest
    /\ returned = <<>>
    /\ pc = "flatten"
    /\ call = "flatten"

\* FlatBlockTraces::flatten(vec![], trace) of From<BlockTraces>
Flatten ==
    /\ pc = "flatten"
    /\ returned' = flatten(<<>>, arg)
    /\ pc' = "Ok"
    /\ UNCHANGED <<call, arg, chunker_vars, exit_vars>>

SpecTrace == InitTrace /\ [][Flatten]_vars

(***************************************************************************)
(* wait_for_exit (parity/main.rs): the main thread installs two handlers   *)
(* that notify a condition variable, then waits on it.  Ctrl-C signals and *)
(* forwarded panics arrive from other threads at any moment; each runs its *)
(* handler, which calls notify_all.                                        *)
(***************************************************************************)
\* the number of Ctrl-C signals and panics of one run
MaxEvents == 2

EventKinds == {"ctrlc", "panic"}

\* wait_for_exit is entered with a fresh condition variable, line 399
InitExit ==
    /\ call = "wait_for_exit"
    /\ pc = "set_handler"
    /\ arg = <<>>
    /\ returned = <<>>
    /\ ChunkerAtRest
    /\ ExitAtRest

\* line 403: CtrlC::set_handler(move || { e.notify_all(); })
SetHandler ==
    /\ call = "wait_for_exit"
    /\ pc = "set_handler"
    /\ handlers' = handlers \cup {"ctrlc"}
    /\ pc' = "on_panic"
    /\ UNCHANGED <<call, arg, returned, chunker_vars, events, pending>>

\* line 407: panic_handler.on_panic(move |_reason| { e.notify_all(); })
OnPanic ==
    /\ call = "wait_for_exit"
    /\ pc = "on_panic"
    /\ handlers' = handlers \cup {"panic"}
    /\ pc' = "lock"
    /\ UNCHANGED <<call, arg, returned, chunker_vars, events, pending>>

\* lines 410-411: the mutex is made and locked, and exit.wait releases it and
\* blocks the main thread; no flag is read before blocking
Wait ==
    /\ call = "wait_for_exit"
    /\ pc = "lock"
    /\ pc' = "wait"
    /\ UNCHANGED <<call, arg, returned, chunker_vars, exit_vars>>

\* a Ctrl-C signal or a forwarded panic: its handler, once installed, starts
\* in the thread of the signal or of the panic
Event(kind) ==
    /\ call = "wait_for_exit"
    /\ kind \in handlers
    /\ pc # "returned"
    /\ Len(events) < MaxEvents
    /\ events' = Append(events, [kind |-> kind, at |-> pc])
    /\ pending' = Append(pending, kind)
    /\ UNCHANGED <<call, pc, arg, returned, chunker_vars, handlers>>

\* lines 403 and 407, the body of either handler: e.notify_all() wakes the
\* threads blocked in wait at that moment, and is not remembered otherwise
NotifyAll ==
    /\ call = "wait_for_exit"
    /\ pending # <<>>
    /\ pending' = Tail(pending)
    /\ pc' = IF pc = "wait" THEN "info" ELSE pc
    /\ UNCHANGED <<call, arg, returned, chunker_vars, handlers, events>>

\* line 411: Condvar::wait may return without any notification
SpuriousWakeup ==
    /\ call = "wait_for_exit"
    /\ pc = "wait"
    /\ pc' = "info"
    /\ UNCHANGED <<call, arg, returned, chunker_vars, exit_vars>>

\* lines 412-413: the message is logged and wait_for_exit returns
Return ==
    /\ call = "wait_for_exit"
    /\ pc = "info"
    /\ pc' = "returned"
    /\ returned' = <<"Ok">>
    /\ UNCHANGED <<call, arg, chunker_vars, exit_vars>>

MainThread == SetHandler \/ OnPanic \/ Wait \/ Return

NextExit == MainThread \/ (\E kind \in EventKinds : Event(kind)) \/ NotifyAll \/ SpuriousWakeup

\* the main thread runs while it is not blocked, and a handler that has
\* started runs to its notify_all; signals, panics and spurious wake-ups
\* are not bound to happen
SpecExit == InitExit /\ [][NextExit]_vars /\ WF_vars(MainThread) /\ WF_vars(NotifyAll)

(***************************************************************************)
(* Reading back what a run wrote.                                          *)
(***************************************************************************)
\* the chunks written completely, in the order they were written
WholeFiles == SelectSeq(files, LAMBDA f : f.whole)

\* the datum whose compressed form is exactly `bytes`
Decompress(bytes) ==
    IF /\ Len(bytes) = 1
       /\ "snappy" \in DOMAIN bytes[1].of
       /\ bytes[1].lo = 1
       /\ bytes[1].hi = compress_into_size(bytes[1].of.snappy)
    THEN bytes[1].of.snappy
    ELSE [corrupt |-> bytes]

WrittenChunks == [i \in 1..Len(WholeFiles) |-> Decompress(WholeFiles[i].data)]

\* the chunk a consumer reads for a hash of the returned vector
ReadChunk(hash) ==
    LET i == CHOOSE j \in 1..Len(files) : files[j].name = Hex(hash)
    IN  Decompress(files[i].data)

\* the chunks in the order of the hash vector handed back by Ok(hashes)
ReturnedChunks == [i \in 1..Len(returned[2]) |-> ReadChunk(returned[2][i])]

ItemsOfChunks(chunks) == Concat([i \in 1..Len(chunks) |-> Items(chunks[i].pairs)])

Count(x, s) == Cardinality({i \in 1..Len(s) : s[i] = x})

BlocksOk == call = "chunk_blocks" /\ pc = "Ok"

StateOk == call = "chunk_state" /\ pc = "Ok"

\* the block numbers of (genesis, best], ascending
ChainAscending == [n \in 1..Len(chain) |-> n]

(***************************************************************************)
(* Properties of chunk_blocks.                                             *)
(***************************************************************************)
\* C1: after chunk_blocks returns Ok, every block of (genesis, best] is in
\* exactly one written block chunk; nothing else, genesis included, is stored.
C1_EveryBlockInExactlyOneChunk ==
    BlocksOk =>
        LET stored == ItemsOfChunks(WrittenChunks)
        IN  /\ \A n \in 1..Len(chain) : Count(n, stored) = 1
            /\ \A i \in 1..Len(stored) : stored[i] \in 1..Len(chain)

C1_Witness ==
    /\ BlocksOk
    /\ Len(chain) >= 3
    /\ Len(WrittenChunks) >= 2
    /\ \A i \in 1..Len(WrittenChunks) : WrittenChunks[i].pairs # <<>>

\* C2: in every written block chunk with header (parent_hash, number), the
\* pair at position i (from 0) is block number + i, and parent_hash is the
\* parent hash of the first block stored.
C2_HeaderNamesFirstBlock ==
    call = "chunk_blocks" =>
        \A k \in 1..Len(WrittenChunks) :
            LET c == WrittenChunks[k]
            IN  /\ \A i \in 1..Len(c.pairs) : c.pairs[i].item = c.number + (i - 1)
                /\ c.pairs # <<>> =>
                     c.parent_hash = header_parent_hash(HashOfBlock(c.pairs[1].item))

\* C3 as stated: the chunks concatenated in the order of the returned hash
\* vector are the blocks of (genesis, best] in ascending order without gaps.
C3_ReturnedOrderAscending ==
    BlocksOk => ItemsOfChunks(ReturnedChunks) = ChainAscending

\* C3 amended: the chunks concatenated in the reverse of the order of the
\* returned hash vector are the blocks of (genesis, best] in ascending order
\* without gaps.
C3_ReversedOrderAscending ==
    BlocksOk => ItemsOfChunks(Reverse(ReturnedChunks)) = ChainAscending

C3_Witness ==
    /\ BlocksOk
    /\ Len(ReturnedChunks) >= 3
    /\ \E i \in 1..Len(ReturnedChunks) : Len(ReturnedChunks[i].pairs) >= 2

\* C4: of two chunks of the returned vector the one listed earlier holds only
\* higher block numbers than the one listed later; the first chunk listed
\* holds the best block and the last chunk listed holds block 1.
C4_ListedEarlierHoldsHigher ==
    (BlocksOk /\ best_block_hash # genesis_hash) =>
        LET cs == ReturnedChunks
        IN  /\ \A i, j \in 1..Len(cs) :
                  i < j => \A a \in 1..Len(cs[i].pairs), b \in 1..Len(cs[j].pairs) :
                               cs[i].pairs[a].item > cs[j].pairs[b].item
            /\ cs # <<>>
            /\ \E a \in 1..Len(cs[1].pairs) : cs[1].pairs[a].item = Len(chain)
            /\ \E b \in 1..Len(cs[Len(cs)].pairs) : cs[Len(cs)].pairs[b].item = 1

\* C5: in every written block chunk the stored pairs are in strictly
\* ascending, consecutive block-number order.
C5_PairsAscendingInChunk ==
    call = "chunk_blocks" =>
        \A k \in 1..Len(WrittenChunks) :
            LET c == WrittenChunks[k]
            IN  \A i \in 1..(Len(c.pairs) - 1) : c.pairs[i + 1].item = c.pairs[i].item + 1

C5_Witness ==
    /\ call = "chunk_blocks"
    /\ \E k \in 1..Len(WrittenChunks) : Len(WrittenChunks[k].pairs) >= 3
    /\ Len(WrittenChunks) >= 2

\* C6: a chain with exactly one non-genesis block yields exactly one chunk and
\* one hash, the chunk having header (genesis hash, 1) and holding the block.
C6_OneBlockOneChunk ==
    (BlocksOk /\ Len(chain) = 1) =>
        /\ Len(WrittenChunks) = 1
        /\ Len(files) = 1
        /\ Len(returned[2]) = 1
        /\ WrittenChunks[1].parent_hash = genesis_hash
        /\ WrittenChunks[1].number = 1
        /\ Items(WrittenChunks[1].pairs) = <<1>>

\* C7: when the best block is the genesis, chunk_blocks fetches no block,
\* writes no file, does not fail, and returns Ok with an empty hash vector.
C7_BestIsGenesis ==
    (call = "chunk_blocks" /\ best_block_hash = genesis_hash) =>
        /\ fetched = <<>>
        /\ files = <<>>
        /\ pc # "Err"
        /\ pc = "Ok" => returned = <<"Ok", <<>>>>

C7_Witness == BlocksOk /\ best_block_hash = genesis_hash /\ returned = <<"Ok", <<>>>>

(***************************************************************************)
(* Properties of both chunkers.                                            *)
(***************************************************************************)
OneItemAbovePreferred(c) == Len(c.pairs) = 1 /\ c.pairs[1].len > PREFERRED_CHUNK_SIZE

\* C8 as stated: the uncompressed encoded size of every written chunk, header
\* and list prefix included, is at most PREFERRED_CHUNK_SIZE, unless the chunk
\* holds exactly one item that alone is larger than PREFERRED_CHUNK_SIZE.
C8_RawSizeWithinPreferred ==
    \A k \in 1..Len(WrittenChunks) :
        LET c == WrittenChunks[k]
        IN  c.raw_len <= PREFERRED_CHUNK_SIZE \/ OneItemAbovePreferred(c)

\* C8 amended: the encoded sizes of the items of every written chunk sum to at
\* most PREFERRED_CHUNK_SIZE, unless the chunk holds exactly one item that
\* alone is larger than PREFERRED_CHUNK_SIZE.
C8_ItemSizesWithinPreferred ==
    \A k \in 1..Len(WrittenChunks) :
        LET c == WrittenChunks[k]
        IN  SumLen(c.pairs) <= PREFERRED_CHUNK_SIZE \/ OneItemAbovePreferred(c)

C8_Witness ==
    \E k \in 1..Len(WrittenChunks) :
        /\ Len(WrittenChunks[k].pairs) >= 2
        /\ SumLen(WrittenChunks[k].pairs) = PREFERRED_CHUNK_SIZE
        /\ WrittenChunks[k].raw_len > PREFERRED_CHUNK_SIZE

(***************************************************************************)
(* Properties of chunk_state.                                              *)
(***************************************************************************)
\* C9: the state chunks read in the order of the returned hash vector, each in
\* stored order, give the account keys in the order the trie iterator
\* produced them.
C9_KeysInIteratorOrder ==
    StateOk => ItemsOfChunks(ReturnedChunks) = Items(accounts)

C9_Witness ==
    /\ StateOk
    /\ Len(ReturnedChunks) >= 2
    /\ \E i \in 1..Len(ReturnedChunks) : Len(ReturnedChunks[i].pairs) >= 2

\* C10: after chunk_state returns Ok, every key the trie iterator yielded is
\* stored exactly once across the written state chunks, and no other key is.
C10_EveryAccountInExactlyOneChunk ==
    StateOk =>
        LET stored == ItemsOfChunks(WrittenChunks)
        IN  /\ Len(stored) = Len(accounts)
            /\ \A k \in KeySpace : Count(k, stored) = Count(k, Items(accounts))

C10_Witness ==
    /\ StateOk
    /\ Len(accounts) >= 3
    /\ Len(WrittenChunks) >= 2
    /\ Len(WrittenChunks[Len(WrittenChunks)].pairs) >= 2

\* C11: every stored account pair is one whole pair of the trie, and a pair
\* whose encoded size alone reaches PREFERRED_CHUNK_SIZE is alone in its
\* chunk: the buffer never holds it together with another pair.
C11_LargeAccountIsSingleton ==
    call = "chunk_state" =>
        /\ \A k \in 1..Len(WrittenChunks) :
               LET c == WrittenChunks[k]
               IN  \A i \in 1..Len(c.pairs) :
                       /\ \E a \in 1..Len(accounts) : accounts[a] = c.pairs[i]
                       /\ c.pairs[i].len >= PREFERRED_CHUNK_SIZE => Len(c.pairs) = 1
        /\ \A i \in 1..Len(rlps) : rlps[i].len >= PREFERRED_CHUNK_SIZE => Len(rlps) = 1

C11_Witness ==
    /\ StateOk
    /\ \E k \in 2..(Len(WrittenChunks) - 1) :
           /\ Len(WrittenChunks[k].pairs) = 1
           /\ WrittenChunks[k].pairs[1].len >= PREFERRED_CHUNK_SIZE
           /\ WrittenChunks[k - 1].pairs # <<>>
           /\ WrittenChunks[k + 1].pairs # <<>>

(***************************************************************************)
(* Failure of the chunk file.                                              *)
(***************************************************************************)
IsPrefix(s, t) == Len(s) <= Len(t) /\ \A i \in 1..Len(s) : s[i] = t[i]

\* C13: a failure to create or write a chunk file makes the operation return
\* Err without a hash list; nothing is written after the failure, and the
\* files written before it stay as they were.
C13_WriteFailureReturnsErr ==
    /\ []((\E i \in 1..Len(files) : ~files[i].whole) => pc = "Err")
    /\ [](pc # "Err" =>
             \A h \in 1..Len(hashes) :
                 \E i \in 1..Len(files) : files[i].whole /\ files[i].name = Hex(hashes[h]))
    /\ [](pc = "Err" => returned = <<"Err">>)
    /\ [][pc # "Err" /\ IsPrefix(files, files') /\ Len(files') <= Len(files) + 1]_vars

C13_Witness ==
    /\ pc = "Err"
    /\ Len(files) >= 3
    /\ ~files[Len(files)].whole
    /\ \A i \in 1..(Len(files) - 1) : files[i].whole

(***************************************************************************)
(* Properties of write_chunk.                                              *)
(***************************************************************************)
\* C12: every chunk file is named by the hex of the hash of exactly the bytes
\* written to it, these bytes are the compressed data and nothing else of the
\* buffer, and the hash pushed onto the chunker's list is that same hash.
C12_FileNamedByHashOfContents ==
    /\ \A i \in 1..Len(WholeFiles) :
           /\ WholeFiles[i].name = Hex(Sha3(WholeFiles[i].data))
           /\ "corrupt" \notin DOMAIN Decompress(WholeFiles[i].data)
    /\ pc # "Err" =>
           /\ Len(hashes) = Len(WholeFiles)
           /\ \A i \in 1..Len(hashes) : hashes[i] = Sha3(WholeFiles[i].data)

\* the last chunk was compressed over the bytes of an earlier, longer one
C12_Witness ==
    /\ pc = "Ok"
    /\ Len(hashes) >= 2
    /\ Len(snappy_buffer) >= 3
    /\ "snappy" \in DOMAIN snappy_buffer[2].of
    /\ snappy_buffer[2].lo > 1

(***************************************************************************)
(* Properties of to_fat_rlp.                                               *)
(***************************************************************************)
FatDone == call = "to_fat_rlp" /\ pc # "to_fat_rlp"

\* C14: to_fat_rlp writes has_code = true and the code stored under code_hash
\* if and only if code_hash differs from the hash of the empty byte string;
\* otherwise it writes has_code = false and an empty byte string.
C14_CodeInlinedIffNotEmpty ==
    (FatDone /\ pc = "Ok") =>
        IF arg.thin[4] # SHA3_EMPTY
        THEN /\ returned[2].code_block[1] = TRUE
             /\ Sha3(returned[2].code_block[2]) = arg.thin[4]
             /\ returned[2].code_block[2] \in arg.db.codes
        ELSE returned[2].code_block = <<FALSE, <<>>>>

\* C15: for an account whose code hash is the hash of the empty byte string
\* and whose storage trie is empty and held by the database, to_fat_rlp gives
\* (nonce, balance, storage_root, (false, empty), empty list) and asks the
\* database for no code.
C15_EmptyAccount ==
    (FatDone /\ arg.thin[4] = SHA3_EMPTY /\ arg.trie = <<>> /\ arg.db.tries # {}) =>
        /\ returned = <<"Ok", [nonce |-> arg.thin[1],
                               balance |-> arg.thin[2],
                               storage_root |-> SHA3_NULL_RLP,
                               code_block |-> <<FALSE, <<>>>>,
                               storage_pairs |-> <<>>]>>
        /\ fetched = <<>>

C15_Witness ==
    /\ FatDone
    /\ pc = "Ok"
    /\ arg.thin[4] = SHA3_EMPTY
    /\ arg.trie = <<>>
    /\ arg.thin[1] = 1
    /\ arg.db.codes = {}

\* the trie holding exactly the pairs of a list
TrieOfPairs(pairs) ==
    [k \in {pairs[i][1] : i \in 1..Len(pairs)} |->
        (CHOOSE p \in {pairs[i] : i \in 1..Len(pairs)} : p[1] = k)[2]]

\* C16: the fat encoding carries nonce, balance and storage_root of the thin
\* account unchanged, and its storage pairs are the pairs of the storage trie,
\* each once, in iterator order, so that the trie rebuilt from them has the
\* thin account's storage_root.
C16_FatCarriesThinAndStorage ==
    (FatDone /\ pc = "Ok") =>
        LET fat == returned[2]
        IN  /\ fat.nonce = arg.thin[1]
            /\ fat.balance = arg.thin[2]
            /\ fat.storage_root = arg.thin[3]
            /\ Len(fat.storage_pairs) = Cardinality(DOMAIN arg.trie)
            /\ \A k \in DOMAIN arg.trie :
                   Cardinality({i \in 1..Len(fat.storage_pairs) :
                                   fat.storage_pairs[i] = <<k, arg.trie[k]>>}) = 1
            /\ \A i \in 1..(Len(fat.storage_pairs) - 1) :
                   fat.storage_pairs[i][1] < fat.storage_pairs[i + 1][1]
            /\ TrieRoot(TrieOfPairs(fat.storage_pairs)) = arg.thin[3]

C16_Witness ==
    /\ FatDone
    /\ pc = "Ok"
    /\ Len(returned[2].storage_pairs) >= 2
    /\ returned[2].nonce # returned[2].balance

(***************************************************************************)
(* Properties of ManifestData.                                             *)
(***************************************************************************)
\* C17: for every manifest, from_rlp of its to_rlp succeeds and gives the same
\* state hashes and block hashes, in the same order, and the same state root.
C17_ManifestRoundTrip ==
    (call = "manifest" /\ pc \notin {"to_rlp", "from_rlp"}) =>
        /\ pc = "Ok"
        /\ returned[2].state_hashes = arg.state_hashes
        /\ returned[2].block_hashes = arg.block_hashes
        /\ returned[2].state_root = arg.state_root

C17_Witness ==
    /\ call = "manifest"
    /\ pc = "Ok"
    /\ arg.state_hashes = <<>>
    /\ Len(arg.block_hashes) = 2
    /\ arg.block_hashes[1] # arg.block_hashes[2]

(***************************************************************************)
(* Properties of the binary codec.                                         *)
(***************************************************************************)
BinaryDone == call = "binary" /\ pc \notin {"serialize_into", "deserialize_from"}

\* C18: serialize_into followed by deserialize_from gives back the vector it
\* was given, for every Vec<Option<u64>> and every Vec<String>, wherever the
\* elements of size zero (None, the empty string) stand in it.
C18_VecRoundTrip ==
    (BinaryDone /\ arg.type \in {VecOf(OptionOf(U64)), VecOf(StringT)}) =>
        returned = <<"Ok", arg.value>>

\* the bytes of the elements of a Vec<Option<u64>> that are Some
OptionPayload(v) ==
    Concat([i \in 1..Len(v) |->
               IF v[i][1] = "Some" THEN LittleEndian(v[i][2], 8) ELSE <<>>])

\* C19: for a Vec<Option<u64>> of n >= 1 elements the stream serialize_into
\* writes is the 8-byte n, then n 8-byte lengths in element order, 8 for Some
\* and 0 for None, then the 8-byte payload size, then the payload.
C19_StreamLayout ==
    (/\ call = "binary"
     /\ pc = "deserialize_from"
     /\ arg.type = VecOf(OptionOf(U64))
     /\ Len(arg.value) >= 1) =>
        LET v == arg.value
            n == Len(v)
            lengths == [i \in 1..n |-> IF v[i][1] = "Some" THEN 8 ELSE 0]
        IN  returned[2] = LittleEndian(n, 8)
                              \o Concat([i \in 1..n |-> LittleEndian(lengths[i], 8)])
                              \o LittleEndian(Len(OptionPayload(v)), 8)
                              \o OptionPayload(v)

\* C20: serialize_into followed by deserialize_from gives back the optional
\* value it was given, for every Option<String> and Option<Vec<u8>>: None is
\* written as 16 zero bytes and read as None, Some(x) is read as Some(x), the
\* empty string and the empty vector included.
C20_OptionRoundTrip ==
    (call = "binary" /\ arg.type \in {OptionOf(StringT), OptionOf(VecU8)}) =>
        /\ (pc = "deserialize_from" /\ arg.value = None) =>
               returned = <<"Ok", [i \in 1..16 |-> 0]>>
        /\ BinaryDone => returned = <<"Ok", arg.value>>

\* C21: serialize_into followed by deserialize_from gives back the map it was
\* given, for every BTreeMap<K, V>: keys and values of fixed size and of
\* different widths, and keys or values of variable length.
C21_MapRoundTrip ==
    (BinaryDone /\ arg.type.kind = "BTreeMap") => returned = <<"Ok", arg.value>>

(***************************************************************************)
(* Properties of the flattening of traces.                                 *)
(***************************************************************************)
\* the addresses of the nodes of a tree: the child indices from the root
RECURSIVE AddressesOf(_)
AddressesOf(trace) ==
    {<<>>} \cup UNION {{<<index - 1>> \o a : a \in AddressesOf(trace.subs[index])} :
                          index \in 1..Len(trace.subs)}

\* the node of a tree at an address
RECURSIVE NodeAt(_, _)
NodeAt(trace, address) ==
    IF address = <<>> THEN trace
    ELSE NodeAt(trace.subs[Head(address) + 1], Tail(address))

\* a is before b in pre-order: a is a proper prefix of b, or a has the
\* smaller index where they first differ
RECURSIVE PreOrderBefore(_, _)
PreOrderBefore(a, b) ==
    IF b = <<>> THEN FALSE
    ELSE IF a = <<>> THEN TRUE
    ELSE IF Head(a) # Head(b) THEN Head(a) < Head(b)
    ELSE PreOrderBefore(Tail(a), Tail(b))

\* C22: flatten gives one FlatTrace per node of the tree, in pre-order; the
\* trace_address of an entry is the path of child indices from the root to
\* its node, its subtraces the number of direct children of that node, and
\* its action and result are those of that node.
C22_FlattenPreOrder ==
    (call = "flatten" /\ pc = "Ok") =>
        /\ Len(returned) = Cardinality(AddressesOf(arg))
        /\ \A i \in 1..Len(returned) :
               /\ returned[i].trace_address \in AddressesOf(arg)
               /\ LET node == NodeAt(arg, returned[i].trace_address)
                  IN  /\ returned[i].subtraces = Len(node.subs)
                      /\ returned[i].action = node.action
                      /\ returned[i].result = node.result
        /\ \A i, j \in 1..Len(returned) :
               i < j => PreOrderBefore(returned[i].trace_address, returned[j].trace_address)

\* the tree of test_block_from: five entries at [], [0], [0,0], [0,1], [1]
\* with 2, 2, 0, 0, 0 subtraces
C22_Witness ==
    /\ call = "flatten"
    /\ pc = "Ok"
    /\ arg.action = "Call"
    /\ [i \in 1..Len(returned) |-> returned[i].trace_address]
           = <<<<>>, <<0>>, <<0, 0>>, <<0, 1>>, <<1>>>>
    /\ [i \in 1..Len(returned) |-> returned[i].subtraces] = <<2, 2, 0, 0, 0>>
    /\ [i \in 1..Len(returned) |-> returned[i].action]
           = <<"Call", "Create", "Create", "Create", "Create">>

IsSuffix(s, t) == \E k \in 0..Len(t) : s = SubSeq(t, k + 1, Len(t))

\* C28: the length stack is a queue used up: from_bytes, given the bytes and
\* the length stack to_bytes made for a value of a variable-length type, pops
\* the lengths from the front, in the order they were pushed, and leaves the
\* stack empty when it returns.
C28_LengthStackConsumed ==
    /\ []((call = "to_bytes" /\ pc = "Ok") => returned[3] = <<>>)
    /\ [][(call = "to_bytes" /\ pc = "from_bytes" /\ pc' = "Ok") =>
              IsSuffix(returned'[3], returned[3])]_vars

\* the input is shorter than its own header requires
ShortInput ==
    LET r == returned[2]
    IN  IF len_params(arg.type) = 0 THEN Len(r) < size_of(arg.type)
        ELSE \/ Len(r) < 16
             \/ Len(r) < 16 + 8 * LittleEndianValue(SubSeq(r, 1, 8))

\* C29: deserialize_from returns Err, and neither aborts nor returns a value,
\* for an input shorter than its header requires: fewer than size_of<T> bytes
\* for a type of fixed size, fewer than 16 bytes for a type of variable
\* length, or a length stack declared longer than the input.
C29_ShortInputReturnsErr ==
    [][(call = "deserialize_from" /\ pc = "deserialize_from" /\ ShortInput) =>
          returned' = <<"Err">>]_vars

(***************************************************************************)
(* Further properties of the chunkers.                                     *)
(***************************************************************************)
\* C23: when best differs from genesis and chunk_blocks returns Ok, the chunk
\* of the last hash of the returned vector has the header (genesis_hash, 1)
\* and block 1 as its first pair, and no other chunk has number 1 in its
\* header.
C23_OnlyLastChunkHasNumberOne ==
    (BlocksOk /\ best_block_hash # genesis_hash) =>
        LET cs == ReturnedChunks
        IN  /\ cs # <<>>
            /\ cs[Len(cs)].parent_hash = genesis_hash
            /\ cs[Len(cs)].number = 1
            /\ cs[Len(cs)].pairs # <<>>
            /\ cs[Len(cs)].pairs[1].item = 1
            /\ \A i \in 1..(Len(cs) - 1) : cs[i].number # 1

(***************************************************************************)
(* Further properties of to_fat_rlp.                                       *)
(***************************************************************************)
\* C24: with code stored under its hash, no thin account that differs from
\* the one made fat in nonce, balance, storage_root or code_hash has the same
\* fat encoding, and when has_code is true the hash of the inlined code is
\* the account's code_hash.
C24_ThinFromFat ==
    (FatDone /\ pc = "Ok") =>
        /\ \A nonce \in {0, 1}, balance \in {0, 1000}, trie \in StorageTries, code \in Codes :
               LET other == <<nonce, balance, TrieRoot(trie), Sha3(code)>>
                   db == [tries |-> StorageTries, codes |-> arg.db.codes]
               IN  other # arg.thin => to_fat_rlp(from_thin_rlp(other), db).ret # returned
        /\ returned[2].code_block[1] = TRUE =>
               Sha3(returned[2].code_block[2]) = arg.thin[4]

\* the length of the buffer compress_into was last given
LastCompressed == snappy_buffer[1].of.snappy

\* C25: the compression buffer of a chunker never gets shorter and is at
\* least SNAPPY_BUFFER_SIZE long; whenever compress_into has been called the
\* buffer is at least max_compressed_len(input length) long, and the panic on
\* BufferTooSmall is never reached.
C25_BufferNeverTooSmall ==
    /\ [](call \in {"chunk_blocks", "chunk_state"} =>
             /\ BufLen(snappy_buffer) >= SNAPPY_BUFFER_SIZE
             /\ "snappy" \in DOMAIN snappy_buffer[1].of =>
                    BufLen(snappy_buffer) >= max_compressed_len(LastCompressed.raw_len)
             /\ pc # "panic")
    /\ [][BufLen(snappy_buffer') >= BufLen(snappy_buffer)]_vars

\* a chunk longer than the buffer has been compressed, and a short chunk
\* after it, into the buffer grown for the long one
C25_Witness ==
    /\ pc = "Ok"
    /\ "snappy" \in DOMAIN snappy_buffer[1].of
    /\ max_compressed_len(LastCompressed.raw_len) < SNAPPY_BUFFER_SIZE
    /\ \E k \in 1..(Len(WrittenChunks) - 1) :
           /\ max_compressed_len(WrittenChunks[k].raw_len) > SNAPPY_BUFFER_SIZE
           /\ BufLen(snappy_buffer) = max_compressed_len(WrittenChunks[k].raw_len)

\* C26: every chunk written by chunk_blocks or chunk_state holds at least one
\* pair, whatever the sizes of the items, so that the hashes returned are
\* never more than the items.
C26_NoEmptyChunk ==
    call \in {"chunk_blocks", "chunk_state"} =>
        /\ \A k \in 1..Len(WrittenChunks) : WrittenChunks[k].pairs # <<>>
        /\ pc = "Ok" => Len(returned[2]) <= Len(chain) + Len(accounts)

\* C27: the operation aborts only when the compressor breaks its invariant;
\* when a collaborator fails, here the database holding no entry for the code
\* of an account, the operation returns Err to its caller.
C27_CollaboratorFailureReturnsErr ==
    /\ call \in {"chunk_blocks", "chunk_state"} =>
           (pc = "panic" => compression_helper(LastCompressed, snappy_buffer).too_small)
    /\ call = "to_fat_rlp" =>
           /\ pc # "panic"
           /\ (FatDone /\ fetched # <<>> /\ HashDBGet(arg.db, fetched[1]) = <<>>) => pc = "Err"


(***************************************************************************)
(* Properties of wait_for_exit.                                            *)
(***************************************************************************)
\* a Ctrl-C or a forwarded panic occurred after both handlers were installed
EventAfterInstall ==
    \E i \in 1..Len(events) : events[i].at \in {"lock", "wait"}

\* C30: once both handlers of wait_for_exit are installed, a Ctrl-C or a
\* forwarded panic occurring at any later moment, the moments before the main
\* thread waits included, makes wait_for_exit eventually return; and
\* wait_for_exit wakes up and returns only after such an event has occurred.
C30_EventMakesWaitForExitReturn ==
    /\ (call = "wait_for_exit" /\ EventAfterInstall) ~> (pc = "returned")
    /\ []((call = "wait_for_exit" /\ pc \in {"info", "returned"}) => events # <<>>)

====
